---- MODULE Spec2Model ----
(***************************************************************************)
(* One invocation of a "volume group" command of                           *)
(* openstackclient/volume/v3/volume_group.py: the argument parser of the   *)
(* command, then its take_action, one step per version check or remote     *)
(* call.  The remote client is the environment: every call it receives is  *)
(* appended to `calls`, and it either returns an object or raises.         *)
(***************************************************************************)
EXTENDS Integers, Sequences, FiniteSets, TLC

VARIABLES cmd, argv, api_version, parsed_args, pc, calls, volume_group_type,
          volume_types, group, outcome, msg, formatted, result

vars == <<cmd, argv, api_version, parsed_args, pc, calls, volume_group_type,
          volume_types, group, outcome, msg, formatted, result>>

----------------------------------------------------------------------------
(* Bounds of the model *)

\* longest list of optional flags on a command line
MaxFlags == 3
\* longest list of <volume_type> tokens given to create
MaxVolumeTypes == 2

----------------------------------------------------------------------------
(* Python values: None is the empty tuple, any other value v is <<v>> *)

None == <<>>
Py(v) == <<v>>

\* bool(v) for a value that is None, True or False
\* (variant: "is not None" in place of bool)
Truthy_not_none(v) == v # None
Truthy(v) == v = Py(TRUE)

\* a dict is a function from keys to values; {} is the empty function
EmptyDict == <<>>
DictSet(d, k, v) == [x \in (DOMAIN d) \cup {k} |-> IF x = k THEN v ELSE d[x]]

----------------------------------------------------------------------------
(* API versions: (major, minor), ordered lexicographically *)

APIVersion(major, minor) == <<major, minor>>

VersionLT(a, b) == a[1] < b[1] \/ (a[1] = b[1] /\ a[2] < b[2])

\* the versions a client may have negotiated: each threshold, the version
\* just below it, and one version on each side with the other major number
Versions == { APIVersion(2, 60), APIVersion(3, 12), APIVersion(3, 13),
              APIVersion(3, 24), APIVersion(3, 25), APIVersion(3, 37),
              APIVersion(3, 38), APIVersion(4, 0) }

Commands == {"create", "delete", "set", "list", "show", "failover"}

\* the minimum version each take_action checks first
\* (variant: failover checked against 3.13 like the others)
MinVersion_failover_313(c) == APIVersion(3, 13)
MinVersion(c) == IF c = "failover" THEN APIVersion(3, 38) ELSE APIVersion(3, 13)

\* the stricter minimum of the options that have one
\* (variant: the replication options checked against 3.13)
MinReplication_313 == APIVersion(3, 13)
MinReplication == APIVersion(3, 38)
MinListVolume == APIVersion(3, 25)

VersionMsg(what) == <<"version", what>>

----------------------------------------------------------------------------
(* Command lines and argparse *)

\* a flag on the command line: its option string and its value ("" when the
\* option takes none)
Flag(f, v) == [flag |-> f, val |-> v]

\* the options of each command: option string -> <<dest, action>>
Options(c) ==
  CASE c = "create"   -> [f \in {"--name", "--description", "--availability-zone"} |->
                            CASE f = "--name" -> <<"name", "store">>
                              [] f = "--description" -> <<"description", "store">>
                              [] OTHER -> <<"availability_zone", "store">>]
    [] c = "delete"   -> [f \in {"--force"} |-> <<"force", "store_true">>]
    [] c = "set"      -> [f \in {"--name", "--description", "--enable-replication",
                                 "--disable-replication"} |->
                            CASE f = "--name" -> <<"name", "store">>
                              [] f = "--description" -> <<"description", "store">>
                              [] f = "--enable-replication" -> <<"enable_replication", "store_true">>
                              [] OTHER -> <<"enable_replication", "store_false">>]
    [] c = "list"     -> [f \in {"--all-projects"} |-> <<"all_projects", "store_true">>]
    [] c = "show"     -> [f \in {"--volumes", "--no-volumes", "--replication-targets",
                                 "--no-replication-targets"} |->
                            CASE f = "--volumes" -> <<"show_volumes", "store_true">>
                              [] f = "--no-volumes" -> <<"show_volumes", "store_false">>
                              [] f = "--replication-targets" -> <<"show_replication_targets", "store_true">>
                              [] OTHER -> <<"show_replication_targets", "store_false">>]
    [] OTHER          -> [f \in {"--allow-attached-volume", "--disallow-attached-volume",
                                 "--secondary-backend-id"} |->
                            CASE f = "--allow-attached-volume" -> <<"allow_attached_volume", "store_true">>
                              [] f = "--disallow-attached-volume" -> <<"allow_attached_volume", "store_false">>
                              [] OTHER -> <<"secondary_backend_id", "store">>]

\* the namespace before any flag is read: the positionals and each dest's
\* default.  env is the value of ALL_PROJECTS in the environment, or None.
Defaults(c, pos, env) ==
  CASE c = "create"   -> [volume_group_type |-> Py(pos[1]),
                          volume_types |-> Tail(pos),
                          name |-> None, description |-> None,
                          availability_zone |-> None]
    [] c = "delete"   -> [group |-> Py(pos[1]), force |-> Py(FALSE)]
    [] c = "set"      -> [group |-> Py(pos[1]), name |-> None,
                          description |-> None, enable_replication |-> None]
    [] c = "list"     -> [all_projects |-> IF env = None THEN Py(FALSE) ELSE env]
    [] c = "show"     -> [group |-> Py(pos[1]), show_volumes |-> None,
                          show_replication_targets |-> None]
    [] OTHER          -> [group |-> Py(pos[1]), allow_attached_volume |-> Py(FALSE),
                          secondary_backend_id |-> None]

\* one flag read by argparse: the dest takes the flag's value
StoreFlag(c, ns, t) ==
  LET o == Options(c)[t.flag]
      v == CASE o[2] = "store" -> Py(t.val)
             [] o[2] = "store_true" -> Py(TRUE)
             [] OTHER -> Py(FALSE)
  IN  [ns EXCEPT ![o[1]] = v]

RECURSIVE ReadFlags(_, _, _)
ReadFlags(c, ns, flags) ==
  IF flags = <<>> THEN ns
  ELSE ReadFlags(c, StoreFlag(c, ns, Head(flags)), Tail(flags))

\* get_parser(...).parse_args(argv)
get_parser(c, pos, flags, env) == ReadFlags(c, Defaults(c, pos, env), flags)

----------------------------------------------------------------------------
(* The remote client *)

\* what each manager of the service knows: name or ID -> ID
Catalog(mgr) ==
  CASE mgr = "groups"      -> [t \in {"g1", "gid1"} |-> "gid1"]
    [] mgr = "group_types" -> [t \in {"gt1", "gtid1"} |-> "gtid1"]
    [] OTHER               -> [t \in {"vt1", "vtid1", "vt2", "vtid2"} |->
                                 IF t \in {"vt1", "vtid1"} THEN "vtid1" ELSE "vtid2"]

\* IDs the service may give a new group
NewGroupIds == {"gid2", "gid3"}

\* lists the service may answer groups.list with
GroupLists == { <<>>, <<"gid1">>, <<"gid1", "gid2">> }

\* lists the service may answer groups.list_replication_targets with
TargetLists == { <<>>, <<"be1">> }

\* the object a call returns: ref is the number of the call that made it
Resource(ref, id) == [ref |-> ref, id |-> id]

\* a call as the remote client saw it, with how it ended: ret is "ok" or the
\* exception raised, value is what it returned (None when it raised)
Call(mgr, op, args, kwargs, ret, value) ==
  [mgr |-> mgr, op |-> op, args |-> args, kwargs |-> kwargs, ret |-> ret,
   value |-> value]

\* what the n-th call may return when it succeeds
Values(n, mgr, op, args) ==
  CASE op = "find_resource" -> { Resource(n, Catalog(mgr)[args[1][1]]) }
    [] op = "create" -> { Resource(n, id) : id \in NewGroupIds }
    [] op \in {"get", "show", "update"} -> { Resource(n, args[1][1]) }
    [] op = "list" -> { Py([i \in 1..Len(ids) |-> Resource(n, ids[i])]) : ids \in GroupLists }
    [] op = "list_replication_targets" -> { Py(t) : t \in TargetLists }
    [] OTHER -> { None }

\* how the n-th call may end: <<ret, value>>
Replies(n, mgr, op, args) ==
  IF op = "find_resource" /\ args[1][1] \notin DOMAIN Catalog(mgr)
  THEN { <<"CommandError", None>> }
  ELSE { <<"ok", v>> : v \in Values(n, mgr, op, args) } \cup { <<"ClientException", None>> }

\* getattr(item, field, '')
Attr(item, field) == IF field \in DOMAIN item THEN item[field] ELSE ""

get_item_properties(item, fields) ==
  [i \in 1..Len(fields) |-> Attr(item, fields[i])]

format_group(g) ==
  << <<"ID", "Status", "Name", "Description", "Group Type", "Volume Types",
       "Availability Zone", "Created At", "Volumes", "Group Snapshot ID",
       "Source Group ID">>,
     get_item_properties(g,
       <<"id", "status", "name", "description", "group_type", "volume_types",
         "availability_zone", "created_at", "volumes", "group_snapshot_id",
         "source_group_id">>) >>

----------------------------------------------------------------------------
(* The command lines tried *)

FlagTokens(c) ==
  CASE c = "create"   -> {Flag("--name", "n1"), Flag("--description", "d1"),
                          Flag("--availability-zone", "az1")}
    [] c = "delete"   -> {Flag("--force", "")}
    [] c = "set"      -> {Flag("--name", ""), Flag("--name", "n1"),
                          Flag("--description", "d1"),
                          Flag("--enable-replication", ""),
                          Flag("--disable-replication", "")}
    [] c = "list"     -> {Flag("--all-projects", "")}
    [] c = "show"     -> {Flag("--volumes", ""), Flag("--no-volumes", ""),
                          Flag("--replication-targets", ""),
                          Flag("--no-replication-targets", "")}
    [] OTHER          -> {Flag("--allow-attached-volume", ""),
                          Flag("--disallow-attached-volume", ""),
                          Flag("--secondary-backend-id", "be1")}

FlagSeqs(c) == UNION { [1..n -> FlagTokens(c)] : n \in 0..MaxFlags }

VolumeTypeSeqs ==
  UNION { [1..n -> {"vt1", "vt2", "nosuch"}] : n \in 1..MaxVolumeTypes }

Positionals(c) ==
  CASE c = "create" -> { <<gt>> \o vts : gt \in {"gt1", "nosuch"}, vts \in VolumeTypeSeqs }
    [] c = "list"   -> { <<>> }
    [] OTHER        -> { <<g>> : g \in {"g1", "nosuch"} }

Environments(c) == IF c = "list" THEN {None, Py("1")} ELSE {None}

----------------------------------------------------------------------------
(* State *)

Init ==
  /\ cmd \in Commands
  /\ api_version \in Versions
  /\ \E pos \in Positionals(cmd), flags \in FlagSeqs(cmd), env \in Environments(cmd) :
       argv = [pos |-> pos, flags |-> flags, env |-> env]
  /\ parsed_args = None
  /\ pc = "parse"
  /\ calls = <<>>
  /\ volume_group_type = None
  /\ volume_types = <<>>
  /\ group = None
  /\ outcome = "running"
  /\ msg = None
  /\ formatted = None
  /\ result = None

locals == <<volume_group_type, volume_types, group>>
inputs == <<cmd, argv, api_version, parsed_args>>

\* raise exc(m): the invocation ends
Raise(exc, m) ==
  /\ outcome' = exc
  /\ msg' = m
  /\ pc' = "done"
  /\ UNCHANGED <<formatted, result>>

\* return value: the invocation ends
Return(obj, value) ==
  /\ outcome' = "ok"
  /\ pc' = "done"
  /\ formatted' = obj
  /\ result' = value
  /\ UNCHANGED msg

\* the command's parser reads the command line, then take_action starts
parse_args ==
  /\ pc = "parse"
  /\ parsed_args' = get_parser(cmd, argv.pos, argv.flags, argv.env)
  /\ pc' = "start"
  /\ UNCHANGED <<cmd, argv, api_version, calls, locals, outcome, msg, formatted, result>>

\* the version check that opens every take_action
CheckVersion(c, next) ==
  /\ cmd = c
  /\ pc = "start"
  /\ IF VersionLT(api_version, MinVersion(c))
     THEN Raise("CommandError", VersionMsg("volume group " \o c))
     ELSE /\ pc' = next
          /\ UNCHANGED <<outcome, msg, formatted, result>>
  /\ UNCHANGED <<inputs, calls, locals>>

\* the n-th call reaches the remote client and ends with reply r
RemoteCall(mgr, op, args, kwargs, r) ==
  calls' = Append(calls, Call(mgr, op, args, kwargs, r[1], r[2]))

\* the exception of a failed call reaches the caller of take_action
\* (variant: the exception is swallowed and the step runs again)
RaiseFrom_retry(ret) == UNCHANGED <<pc, outcome, msg, formatted, result>>
RaiseFrom(ret) == Raise(ret, <<"call", Len(calls) + 1>>)

Continue(next) ==
  /\ pc' = next
  /\ UNCHANGED <<outcome, msg, formatted, result>>

----------------------------------------------------------------------------
(* CreateVolumeGroup.take_action *)

CreateVolumeGroup_check == CheckVersion("create", "find_group_type")

CreateVolumeGroup_find_group_type ==
  /\ cmd = "create"
  /\ pc = "find_group_type"
  /\ LET args == <<parsed_args.volume_group_type>> IN
     \E r \in Replies(Len(calls) + 1, "group_types", "find_resource", args) :
       /\ RemoteCall("group_types", "find_resource", args, EmptyDict, r)
       /\ IF r[1] = "ok"
          THEN /\ volume_group_type' = r[2]
               /\ Continue("find_volume_type")
          ELSE /\ RaiseFrom(r[1])
               /\ UNCHANGED volume_group_type
  /\ UNCHANGED <<inputs, volume_types, group>>

\* one turn of the loop over parsed_args.volume_types
CreateVolumeGroup_find_volume_type ==
  /\ cmd = "create"
  /\ pc = "find_volume_type"
  /\ LET args == <<Py(parsed_args.volume_types[Len(volume_types) + 1])>> IN
     \E r \in Replies(Len(calls) + 1, "volume_types", "find_resource", args) :
       /\ RemoteCall("volume_types", "find_resource", args, EmptyDict, r)
       /\ IF r[1] = "ok"
          THEN /\ volume_types' = Append(volume_types, r[2])
               /\ Continue(IF Len(volume_types) + 1 < Len(parsed_args.volume_types)
                           THEN "find_volume_type" ELSE "create")
          ELSE /\ RaiseFrom(r[1])
               /\ UNCHANGED volume_types
  /\ UNCHANGED <<inputs, volume_group_type, group>>

\* ','.join(x.id for x in objs)
\* (variant: joined last to first)
RECURSIVE JoinIds_reversed(_)
JoinIds_reversed(objs) ==
  IF objs = <<>> THEN ""
  ELSE IF Len(objs) = 1 THEN objs[1].id
  ELSE JoinIds_reversed(Tail(objs)) \o "," \o objs[1].id

RECURSIVE JoinIds(_)
JoinIds(objs) ==
  IF objs = <<>> THEN ""
  ELSE IF Len(objs) = 1 THEN objs[1].id
  ELSE objs[1].id \o "," \o JoinIds(Tail(objs))

CreateVolumeGroup_create ==
  /\ cmd = "create"
  /\ pc = "create"
  /\ LET args == << Py(volume_group_type.id), Py(JoinIds(volume_types)),
                    parsed_args.name, parsed_args.description >>
         kwargs == [availability_zone |-> parsed_args.availability_zone]
     IN \E r \in Replies(Len(calls) + 1, "groups", "create", args) :
          /\ RemoteCall("groups", "create", args, kwargs, r)
          /\ IF r[1] = "ok"
             THEN /\ group' = r[2]
                  /\ Continue("get")
             ELSE /\ RaiseFrom(r[1])
                  /\ UNCHANGED group
  /\ UNCHANGED <<inputs, volume_group_type, volume_types>>

CreateVolumeGroup_get ==
  /\ cmd = "create"
  /\ pc = "get"
  /\ LET args == <<Py(group.id)>> IN
     \E r \in Replies(Len(calls) + 1, "groups", "get", args) :
       /\ RemoteCall("groups", "get", args, EmptyDict, r)
       /\ IF r[1] = "ok"
          THEN /\ group' = r[2]
               /\ Return(r[2], format_group(r[2]))
          ELSE /\ RaiseFrom(r[1])
               /\ UNCHANGED group
  /\ UNCHANGED <<inputs, volume_group_type, volume_types>>

----------------------------------------------------------------------------
(* DeleteVolumeGroup.take_action *)

DeleteVolumeGroup_check == CheckVersion("delete", "find_group")

\* the lookup of parsed_args.group that delete, set, show and failover make
FindGroup(c, next) ==
  /\ cmd = c
  /\ pc = "find_group"
  /\ LET args == <<parsed_args.group>> IN
     \E r \in Replies(Len(calls) + 1, "groups", "find_resource", args) :
       /\ RemoteCall("groups", "find_resource", args, EmptyDict, r)
       /\ IF r[1] = "ok"
          THEN /\ group' = r[2]
               /\ Continue(next)
          ELSE /\ RaiseFrom(r[1])
               /\ UNCHANGED group
  /\ UNCHANGED <<inputs, volume_group_type, volume_types>>

DeleteVolumeGroup_find == FindGroup("delete", "delete")

\* line 190: the keyword arguments of groups.delete
\* (variant: --force ignored)
DeleteKwargs_never(args) == [delete_volumes |-> Py(FALSE)]
DeleteKwargs(args) == [delete_volumes |-> args.force]

DeleteVolumeGroup_delete ==
  /\ cmd = "delete"
  /\ pc = "delete"
  /\ LET args == <<Py(group.id)>> IN
     \E r \in Replies(Len(calls) + 1, "groups", "delete", args) :
       /\ RemoteCall("groups", "delete", args, DeleteKwargs(parsed_args), r)
       /\ IF r[1] = "ok" THEN Return(None, None) ELSE RaiseFrom(r[1])
  /\ UNCHANGED <<inputs, locals>>

----------------------------------------------------------------------------
(* SetVolumeGroup.take_action *)

SetVolumeGroup_check == CheckVersion("set", "find_group")

SetVolumeGroup_find == FindGroup("set", "replication")

\* lines 252-264: the replication flag, its version check and its call
\* (variant: the else of line 263 missing, disable_replication always called)
SetVolumeGroup_replication_no_else ==
  /\ cmd = "set"
  /\ pc = "replication"
  /\ IF parsed_args.enable_replication # None
     THEN IF VersionLT(api_version, MinReplication)
          THEN /\ Raise("CommandError", VersionMsg("--enable-replication"))
               /\ UNCHANGED calls
          ELSE LET args == <<Py(group.id)>>
                   first == IF Truthy(parsed_args.enable_replication)
                            THEN <<Call("groups", "enable_replication", args, EmptyDict,
                                        "ok", None)>>
                            ELSE <<>>
               IN \E r \in Replies(Len(calls) + 1 + Len(first), "groups",
                                   "disable_replication", args) :
                    /\ calls' = calls \o first \o
                                 <<Call("groups", "disable_replication", args, EmptyDict,
                                        r[1], r[2])>>
                    /\ IF r[1] = "ok" THEN Continue("update")
                       ELSE Raise(r[1], <<"call", Len(calls) + 1 + Len(first)>>)
     ELSE /\ Continue("update")
          /\ UNCHANGED calls
  /\ UNCHANGED <<inputs, locals>>

SetVolumeGroup_replication ==
  /\ cmd = "set"
  /\ pc = "replication"
  /\ IF parsed_args.enable_replication # None
     THEN IF VersionLT(api_version, MinReplication)
          THEN /\ Raise("CommandError", VersionMsg("--enable-replication"))
               /\ UNCHANGED calls
          ELSE LET op == IF Truthy(parsed_args.enable_replication)
                         THEN "enable_replication" ELSE "disable_replication"
                   args == <<Py(group.id)>>
               IN \E r \in Replies(Len(calls) + 1, "groups", op, args) :
                    /\ RemoteCall("groups", op, args, EmptyDict, r)
                    /\ IF r[1] = "ok" THEN Continue("update") ELSE RaiseFrom(r[1])
     ELSE /\ Continue("update")
          /\ UNCHANGED calls
  /\ UNCHANGED <<inputs, locals>>

\* lines 266-272: the keyword arguments of groups.update
\* (variant: both fields always sent, None when not given)
SetKwargs_sends_none(args) == [name |-> args.name, description |-> args.description]

\* (variant: "if parsed_args.name:" in place of "is not None")
SetKwargs_truthy(args) ==
  LET k1 == IF args.name \notin {None, Py("")} THEN DictSet(EmptyDict, "name", args.name)
            ELSE EmptyDict
  IN  IF args.description \notin {None, Py("")}
      THEN DictSet(k1, "description", args.description)
      ELSE k1

SetKwargs(args) ==
  LET k1 == IF args.name # None THEN DictSet(EmptyDict, "name", args.name)
            ELSE EmptyDict
  IN  IF args.description # None THEN DictSet(k1, "description", args.description)
      ELSE k1

\* lines 266-277
SetVolumeGroup_update ==
  /\ cmd = "set"
  /\ pc = "update"
  /\ LET kwargs == SetKwargs(parsed_args)
         args == <<Py(group.id)>>
     IN IF kwargs # EmptyDict
        THEN \E r \in Replies(Len(calls) + 1, "groups", "update", args) :
               /\ RemoteCall("groups", "update", args, kwargs, r)
               /\ IF r[1] = "ok"
                  THEN /\ group' = r[2]
                       /\ Return(r[2], format_group(r[2]))
                  ELSE /\ RaiseFrom(r[1])
                       /\ UNCHANGED group
        ELSE /\ Return(group, format_group(group))
             /\ UNCHANGED <<calls, group>>
  /\ UNCHANGED <<inputs, volume_group_type, volume_types>>

----------------------------------------------------------------------------
(* ListVolumeGroup.take_action *)

ListVolumeGroup_check == CheckVersion("list", "list")

ListVolumeGroup_list ==
  /\ cmd = "list"
  /\ pc = "list"
  /\ LET search_opts == [all_tenants |-> parsed_args.all_projects]
         kwargs == [search_opts |-> search_opts]
     IN \E r \in Replies(Len(calls) + 1, "groups", "list", <<>>) :
          /\ RemoteCall("groups", "list", <<>>, kwargs, r)
          /\ IF r[1] = "ok"
             THEN LET groups == r[2][1] IN
                  Return(r[2],
                         << <<"ID", "Status", "Name">>,
                            [i \in 1..Len(groups) |->
                               get_item_properties(groups[i], <<"id", "status", "name">>)] >>)
             ELSE RaiseFrom(r[1])
  /\ UNCHANGED <<inputs, locals>>

----------------------------------------------------------------------------
(* ShowVolumeGroup.take_action *)

\* lines 412-422: the keyword arguments of groups.show
ShowKwargs(args) ==
  IF args.show_volumes # None
  THEN DictSet(EmptyDict, "list_volume", args.show_volumes)
  ELSE EmptyDict

\* lines 405-430: the three version checks, all before the first call
ShowVolumeGroup_check ==
  /\ cmd = "show"
  /\ pc = "start"
  /\ IF VersionLT(api_version, MinVersion("show"))
     THEN Raise("CommandError", VersionMsg("volume group show"))
     ELSE IF parsed_args.show_volumes # None /\ VersionLT(api_version, MinListVolume)
     THEN Raise("CommandError", VersionMsg("--(no-)volumes"))
     ELSE IF /\ parsed_args.show_replication_targets # None
             /\ VersionLT(api_version, MinReplication)
     THEN Raise("CommandError", VersionMsg("--(no-)replication-targets"))
     ELSE Continue("find_group")
  /\ UNCHANGED <<inputs, calls, locals>>

ShowVolumeGroup_find == FindGroup("show", "show")

ShowVolumeGroup_show ==
  /\ cmd = "show"
  /\ pc = "show"
  /\ LET args == <<Py(group.id)>> IN
     \E r \in Replies(Len(calls) + 1, "groups", "show", args) :
       /\ RemoteCall("groups", "show", args, ShowKwargs(parsed_args), r)
       /\ IF r[1] = "ok"
          THEN /\ group' = r[2]
               /\ Continue("targets")
          ELSE /\ RaiseFrom(r[1])
               /\ UNCHANGED group
  /\ UNCHANGED <<inputs, volume_group_type, volume_types>>

\* lines 439-446
ShowVolumeGroup_targets ==
  /\ cmd = "show"
  /\ pc = "targets"
  /\ IF Truthy(parsed_args.show_replication_targets)
     THEN LET args == <<Py(group.id)>> IN
          \E r \in Replies(Len(calls) + 1, "groups", "list_replication_targets", args) :
            /\ RemoteCall("groups", "list_replication_targets", args, EmptyDict, r)
            /\ IF r[1] = "ok"
               THEN /\ group' = DictSet(group, "replication_targets", r[2][1])
                    /\ Return(group', format_group(group'))
               ELSE /\ RaiseFrom(r[1])
                    /\ UNCHANGED group
     ELSE /\ Return(group, format_group(group))
          /\ UNCHANGED <<calls, group>>
  /\ UNCHANGED <<inputs, volume_group_type, volume_types>>

----------------------------------------------------------------------------
(* FailoverVolumeGroup.take_action *)

FailoverVolumeGroup_check == CheckVersion("failover", "find_group")

FailoverVolumeGroup_find == FindGroup("failover", "failover")

\* lines 504-505: the keyword arguments of groups.failover_replication
\* (variant: --secondary-backend-id not passed on)
FailoverKwargs_no_backend(args) ==
  [allow_attached_volume |-> args.allow_attached_volume,
   secondary_backend_id |-> None]

FailoverKwargs(args) ==
  [allow_attached_volume |-> args.allow_attached_volume,
   secondary_backend_id |-> args.secondary_backend_id]

FailoverVolumeGroup_failover ==
  /\ cmd = "failover"
  /\ pc = "failover"
  /\ LET args == <<Py(group.id)>> IN
     \E r \in Replies(Len(calls) + 1, "groups", "failover_replication", args) :
       /\ RemoteCall("groups", "failover_replication", args, FailoverKwargs(parsed_args), r)
       /\ IF r[1] = "ok" THEN Return(None, None) ELSE RaiseFrom(r[1])
  /\ UNCHANGED <<inputs, locals>>

----------------------------------------------------------------------------

Next ==
  \/ parse_args
  \/ CreateVolumeGroup_check
  \/ CreateVolumeGroup_find_group_type
  \/ CreateVolumeGroup_find_volume_type
  \/ CreateVolumeGroup_create
  \/ CreateVolumeGroup_get
  \/ DeleteVolumeGroup_check
  \/ DeleteVolumeGroup_find
  \/ DeleteVolumeGroup_delete
  \/ SetVolumeGroup_check
  \/ SetVolumeGroup_find
  \/ SetVolumeGroup_replication
  \/ SetVolumeGroup_update
  \/ ListVolumeGroup_check
  \/ ListVolumeGroup_list
  \/ ShowVolumeGroup_check
  \/ ShowVolumeGroup_find
  \/ ShowVolumeGroup_show
  \/ ShowVolumeGroup_targets
  \/ FailoverVolumeGroup_check
  \/ FailoverVolumeGroup_find
  \/ FailoverVolumeGroup_failover

Spec == Init /\ [][Next]_vars

----------------------------------------------------------------------------
(* What the properties speak of *)

\* the option string f was given on the command line
Given(f) == \E i \in 1..Len(argv.flags) : argv.flags[i].flag = f

\* the position of the last flag among fs on the command line, 0 if none
LastIdx(fs) ==
  LET I == { i \in 1..Len(argv.flags) : argv.flags[i].flag \in fs }
  IN  IF I = {} THEN 0 ELSE CHOOSE i \in I : \A j \in I : j <= i

\* version v is older than major.minor
Older(v, major, minor) == v[1] < major \/ (v[1] = major /\ v[2] < minor)

\* the calls of operation op, by position
Ops(op) == { i \in 1..Len(calls) : calls[i].op = op }

Lookups == Ops("find_resource")
GroupOperations == { i \in 1..Len(calls) : calls[i].op # "find_resource" }

ReplicationOps == {"enable_replication", "disable_replication",
                   "list_replication_targets", "failover_replication"}

Finished == pc = "done"
Succeeded == pc = "done" /\ outcome = "ok"
VersionError == outcome = "CommandError" /\ msg # None /\ msg[1] = "version"

\* the IDs a list of tokens stands for, joined by commas, built from the right
RECURSIVE CommaJoined(_)
CommaJoined(ids) ==
  IF Len(ids) = 1 THEN ids[1]
  ELSE CommaJoined(SubSeq(ids, 1, Len(ids) - 1)) \o "," \o ids[Len(ids)]

----------------------------------------------------------------------------
(* C1: a client older than the command's minimum (3.38 for failover, 3.13  *)
(* for the other five) gets a CommandError about the version, and the      *)
(* remote client has received no call at all.                              *)

TooOld == IF cmd = "failover" THEN Older(api_version, 3, 38)
          ELSE Older(api_version, 3, 13)

C1_GatedBeforeAnyCall ==
  TooOld => /\ calls = <<>>
            /\ pc \in {"parse", "start", "done"}
            /\ Finished => VersionError

C1_Witness ==
  /\ cmd = "failover"
  /\ api_version = <<3, 37>>
  /\ Given("--secondary-backend-id")
  /\ Finished
  /\ VersionError
  /\ calls = <<>>

----------------------------------------------------------------------------
(* C2: no operation reaches the remote client from a client older than the *)
(* operation's minimum: the four replication operations need 3.38, and     *)
(* groups.show with list_volume needs 3.25.  set with a replication flag   *)
(* on a client from 3.13 up to 3.38 ends in the version error once the     *)
(* group is resolved, with no replication call made.                       *)

C2_NoCallBelowItsMinimum ==
  /\ \A i \in 1..Len(calls) :
       /\ calls[i].op \in ReplicationOps => ~Older(api_version, 3, 38)
       /\ (calls[i].op = "show" /\ "list_volume" \in DOMAIN calls[i].kwargs)
            => ~Older(api_version, 3, 25)
  /\ ( /\ cmd = "set"
       /\ Given("--enable-replication") \/ Given("--disable-replication")
       /\ ~Older(api_version, 3, 13)
       /\ Older(api_version, 3, 38)
       /\ Finished )
     => /\ outcome # "ok"
        /\ Len(calls) = 1
        /\ calls[1].op = "find_resource"
        /\ calls[1].ret = "ok" => VersionError

C2_Witness ==
  /\ cmd = "set"
  /\ api_version = <<3, 37>>
  /\ Given("--enable-replication")
  /\ Given("--name")
  /\ Finished
  /\ VersionError
  /\ Len(calls) = 1
  /\ calls[1].ret = "ok"

----------------------------------------------------------------------------
(* C3: create resolves the group type and every volume type before it      *)
(* calls groups.create, once, with the group type's ID and the volume      *)
(* types' IDs joined by commas in the order given; then it calls           *)
(* groups.get, once, with the ID of the group create returned, and formats *)
(* the group that get returned.                                            *)

C3_CreateThenRefetch ==
  cmd = "create" =>
    LET tokens == Tail(argv.pos)
        n == Len(tokens)
    IN  /\ \A k \in Ops("create") :
             /\ k = n + 2
             /\ \A i \in 1..(k - 1) : calls[i].op = "find_resource" /\ calls[i].ret = "ok"
             /\ calls[1].mgr = "group_types"
             /\ calls[1].args = <<Py(argv.pos[1])>>
             /\ \A i \in 1..n : /\ calls[i + 1].mgr = "volume_types"
                                /\ calls[i + 1].args = <<Py(tokens[i])>>
             /\ calls[k].args[1] = Py(calls[1].value.id)
             /\ calls[k].args[2] = Py(CommaJoined([i \in 1..n |-> calls[i + 1].value.id]))
        /\ \A k \in Ops("get") :
             /\ k = n + 3
             /\ calls[k - 1].op = "create"
             /\ calls[k - 1].ret = "ok"
             /\ calls[k].args = <<Py(calls[k - 1].value.id)>>
        /\ Succeeded =>
             /\ Len(calls) = n + 3
             /\ calls[n + 2].op = "create"
             /\ calls[n + 3].op = "get"
             /\ formatted = calls[n + 3].value
             /\ formatted.ref = n + 3
             /\ result[2][1] = calls[n + 2].value.id

C3_Witness ==
  /\ cmd = "create"
  /\ Succeeded
  /\ Tail(argv.pos) = <<"vt2", "vt1">>
  /\ calls[4].op = "create"
  /\ calls[4].args[2] = Py("vtid2,vtid1")
  /\ calls[5].op = "get"
  /\ calls[5].args = <<Py("gid3")>>

----------------------------------------------------------------------------
(* C4: set without --name and without --description never calls           *)
(* groups.update, and what it formats is the very object the lookup of the *)
(* group returned; without a replication flag either, the lookup is its    *)
(* only remote call.                                                       *)

C4_SetWithoutAttributes ==
  (cmd = "set" /\ ~Given("--name") /\ ~Given("--description")) =>
    /\ Ops("update") = {}
    /\ Succeeded => /\ calls[1].op = "find_resource"
                    /\ formatted = calls[1].value
                    /\ formatted = [ref |-> 1, id |-> "gid1"]
                    /\ result[2][1] = "gid1"
    /\ (~Given("--enable-replication") /\ ~Given("--disable-replication"))
         => /\ Len(calls) <= 1
            /\ GroupOperations = {}

C4_Witness ==
  /\ cmd = "set"
  /\ ~Given("--name")
  /\ ~Given("--description")
  /\ Given("--disable-replication")
  /\ Succeeded
  /\ Len(calls) = 2
  /\ formatted = calls[1].value

----------------------------------------------------------------------------
(* C5: set calls groups.update at most once and only with exactly the      *)
(* fields given on the command line (name iff --name, description iff      *)
(* --description, each with the value given last); a replication call, if  *)
(* a replication flag was given, comes before it.  An invocation that      *)
(* ends well has called update once if and only if --name or --description *)
(* was given, with or without a replication flag.                          *)

Supplied ==
  (IF Given("--name") THEN {"name"} ELSE {}) \cup
  (IF Given("--description") THEN {"description"} ELSE {})

ReplicationFlags == {"--enable-replication", "--disable-replication"}

C5_SetUpdatesOnlySupplied ==
  cmd = "set" =>
    /\ Cardinality(Ops("update")) <= 1
    /\ \A k \in Ops("update") :
         /\ Supplied # {}
         /\ DOMAIN calls[k].kwargs = Supplied
         /\ "name" \in Supplied =>
              calls[k].kwargs["name"] = Py(argv.flags[LastIdx({"--name"})].val)
         /\ "description" \in Supplied =>
              calls[k].kwargs["description"] = Py(argv.flags[LastIdx({"--description"})].val)
         /\ calls[k].args = <<Py(calls[1].value.id)>>
         /\ IF LastIdx(ReplicationFlags) # 0
            THEN /\ k = 3
                 /\ calls[2].ret = "ok"
                 /\ calls[2].op =
                      IF argv.flags[LastIdx(ReplicationFlags)].flag = "--enable-replication"
                      THEN "enable_replication" ELSE "disable_replication"
            ELSE k = 2
    /\ Succeeded => (Cardinality(Ops("update")) = 1 <=> Supplied # {})

C5_Witness ==
  /\ cmd = "set"
  /\ Succeeded
  /\ Given("--disable-replication")
  /\ Supplied = {"name"}
  /\ Len(calls) = 3
  /\ calls[2].op = "disable_replication"
  /\ calls[3].op = "update"
  /\ calls[3].kwargs = [name |-> Py("")]

----------------------------------------------------------------------------
(* C6: show resolves the group, then calls groups.show once with the       *)
(* resolved ID, passing list_volume (True for --volumes, False for         *)
(* --no-volumes) exactly when one of the two flags was given; then it      *)
(* calls groups.list_replication_targets, once, exactly when               *)
(* --replication-targets is in force, and attaches what that returns to    *)
(* the group as replication_targets before formatting it.                  *)

VolumesFlags == {"--volumes", "--no-volumes"}
TargetsFlags == {"--replication-targets", "--no-replication-targets"}

WantTargets ==
  /\ LastIdx(TargetsFlags) # 0
  /\ argv.flags[LastIdx(TargetsFlags)].flag = "--replication-targets"

C6_ShowOrder ==
  cmd = "show" =>
    /\ \A k \in Ops("show") :
         /\ k = 2
         /\ calls[1].op = "find_resource"
         /\ calls[1].ret = "ok"
         /\ calls[k].args = <<Py(calls[1].value.id)>>
         /\ IF LastIdx(VolumesFlags) # 0
            THEN calls[k].kwargs =
                   [list_volume |-> Py(argv.flags[LastIdx(VolumesFlags)].flag = "--volumes")]
            ELSE DOMAIN calls[k].kwargs = {}
    /\ \A k \in Ops("list_replication_targets") :
         /\ k = 3
         /\ calls[2].op = "show"
         /\ calls[2].ret = "ok"
         /\ WantTargets
    /\ Succeeded =>
         /\ Len(calls) = IF WantTargets THEN 3 ELSE 2
         /\ calls[2].op = "show"
         /\ formatted.id = calls[2].value.id
         /\ formatted.ref = 2
         /\ IF WantTargets
            THEN /\ calls[3].op = "list_replication_targets"
                 /\ "replication_targets" \in DOMAIN formatted
                 /\ formatted["replication_targets"] = calls[3].value[1]
            ELSE formatted = calls[2].value

C6_Witness ==
  /\ cmd = "show"
  /\ Succeeded
  /\ Given("--no-volumes")
  /\ WantTargets
  /\ Len(calls) = 3
  /\ calls[2].kwargs = [list_volume |-> Py(FALSE)]
  /\ formatted["replication_targets"] = <<"be1">>

----------------------------------------------------------------------------
(* C7: delete, once the group is resolved, calls groups.delete once with   *)
(* the resolved ID and delete_volumes True if --force was given, False if  *)
(* it was not.                                                             *)

C7_DeleteForce ==
  cmd = "delete" =>
    /\ \A k \in Ops("delete") :
         /\ k = 2
         /\ calls[1].op = "find_resource"
         /\ calls[1].ret = "ok"
         /\ calls[k].args = <<Py(calls[1].value.id)>>
         /\ calls[k].kwargs = [delete_volumes |-> Py(Given("--force"))]
    /\ (Finished /\ Len(calls) >= 1 /\ calls[1].ret = "ok")
         => Cardinality(Ops("delete")) = 1

C7_Witness ==
  /\ cmd = "delete"
  /\ Succeeded
  /\ Given("--force")
  /\ calls[2].op = "delete"
  /\ calls[2].args = <<Py("gid1")>>
  /\ calls[2].kwargs = [delete_volumes |-> Py(TRUE)]

----------------------------------------------------------------------------
(* C8: failover, once the group is resolved, calls                         *)
(* groups.failover_replication once with the resolved ID,                  *)
(* allow_attached_volume False unless --allow-attached-volume is the flag  *)
(* in force, and secondary_backend_id the value of --secondary-backend-id, *)
(* None when it was not given.                                             *)

AttachedFlags == {"--allow-attached-volume", "--disallow-attached-volume"}

C8_FailoverArguments ==
  cmd = "failover" =>
    /\ \A k \in Ops("failover_replication") :
         /\ k = 2
         /\ calls[1].op = "find_resource"
         /\ calls[1].ret = "ok"
         /\ calls[k].args = <<Py(calls[1].value.id)>>
         /\ DOMAIN calls[k].kwargs = {"allow_attached_volume", "secondary_backend_id"}
         /\ calls[k].kwargs["allow_attached_volume"] =
              Py( /\ LastIdx(AttachedFlags) # 0
                  /\ argv.flags[LastIdx(AttachedFlags)].flag = "--allow-attached-volume" )
         /\ calls[k].kwargs["allow_attached_volume"] = Py(TRUE)
              => Given("--allow-attached-volume")
         /\ calls[k].kwargs["secondary_backend_id"] =
              IF Given("--secondary-backend-id")
              THEN Py(argv.flags[LastIdx({"--secondary-backend-id"})].val)
              ELSE None
    /\ (Finished /\ Len(calls) >= 1 /\ calls[1].ret = "ok")
         => Cardinality(Ops("failover_replication")) = 1

C8_Witness ==
  /\ cmd = "failover"
  /\ Succeeded
  /\ ~Given("--allow-attached-volume")
  /\ ~Given("--disallow-attached-volume")
  /\ Given("--secondary-backend-id")
  /\ calls[2].op = "failover_replication"
  /\ calls[2].kwargs = [allow_attached_volume |-> Py(FALSE),
                        secondary_backend_id |-> Py("be1")]

----------------------------------------------------------------------------
(* C9 as stated: an invocation issues at most two remote calls, lookups    *)
(* included.                                                               *)

C9_AtMostTwoCalls == Len(calls) <= 2

(* C9 amended: an invocation issues at most two groups.* operations; the   *)
(* lookups come on top of them: none in list, one in delete, set, show     *)
(* and failover, and in create one for the group type and one for each     *)
(* volume-type token.                                                      *)

MaxLookups ==
  CASE cmd = "create" -> Len(argv.pos)
    [] cmd = "list"   -> 0
    [] OTHER          -> 1

C9_AtMostTwoGroupOperations ==
  /\ Cardinality(GroupOperations) <= 2
  /\ Cardinality(Lookups) <= MaxLookups

C9_Witness ==
  /\ cmd = "set"
  /\ Succeeded
  /\ Len(calls) = 3
  /\ Cardinality(GroupOperations) = 2
  /\ Cardinality(Lookups) = 1

----------------------------------------------------------------------------
(* C10: a failed version check or a failed remote call ends the            *)
(* invocation in that error: the failed call is the last call made, it is  *)
(* not repeated, nothing undoes the calls that succeeded before it, and    *)
(* nothing runs once the invocation has ended.                             *)

C10_FailureAborts ==
  /\ \A i \in 1..Len(calls) :
       calls[i].ret # "ok" => /\ i = Len(calls)
                              /\ Finished
                              /\ outcome = calls[i].ret
                              /\ msg = <<"call", i>>
  /\ outcome # "running" => Finished
  /\ (msg # None /\ msg[1] = "version") =>
       /\ VersionError
       /\ Finished
       /\ \A i \in 1..Len(calls) : calls[i].ret = "ok"
  /\ ~(Ops("enable_replication") # {} /\ Ops("disable_replication") # {})
  /\ Ops("delete") = {} \/ cmd = "delete"
  /\ Finished => ~ENABLED Next

C10_Witness ==
  /\ cmd = "set"
  /\ Finished
  /\ outcome = "ClientException"
  /\ Len(calls) = 3
  /\ calls[2].op = "enable_replication"
  /\ calls[2].ret = "ok"
  /\ calls[3].op = "update"
  /\ calls[3].ret = "ClientException"

====
